---- MODULE Spec2Model ----
(***************************************************************************)
(* A model of the iterative DNS resolver of src/main.py: the resolver      *)
(* core get_results, the referral walker find with its per-TLD domain      *)
(* cache, the recursive chaser find_recursive and the transport wrapper    *)
(* make_request.  Every Python call frame is a record on a per-thread      *)
(* stack; one action models one statement group of the source, named after *)
(* the source line it starts at.                                           *)
(***************************************************************************)
EXTENDS Integers, Sequences, FiniteSets, TLC

(***************************************************************************)
(* Bounds of the model.                                                    *)
(***************************************************************************)
\* How many entries of ROOT_SERVERS the root loop iterates in the model.
NRoots == 2
\* The deepest call stack a thread may build (the code has no bound of its own).
MaxStack == 10
\* The "configured maximum depth" of spec section 4.4 step 6.
MaxDepth == 3
\* The most labels, before the root label, of a name given to get_domain_key.
MaxLabels == 3

(***************************************************************************)
(* Record types, names and their textual form.                             *)
(***************************************************************************)
\* dns.rdatatype.A / AAAA / CNAME
A == "A"
AAAA == "AAAA"
CNAME == "CNAME"

\* Python's None: the value make_request returns on any transport error.
None == [kind |-> "None"]

\* A raised exception, and the one the transport raises for a silent server.
IsRaise(v) == v.kind = "raise"
Timeout == [kind |-> "raise", error |-> "Timeout"]

\* A text name is a sequence of tokens, labels and "." separators:
\* "a.com" is <<"a", ".", "com">>.  A dns.name.Name is its tuple of labels,
\* ending in the empty root label.
Dot == "."

\* dns.name.from_text(text): split at the dots and make the name absolute.
from_text(text) ==
    IF text = <<>> \/ text = <<Dot>>
    THEN <<"">>
    ELSE SelectSeq(text, LAMBDA tok : tok # Dot) \o <<"">>

\* str(name) of an absolute name: every label followed by a dot.
RECURSIVE to_text(_)
to_text(labels) ==
    IF labels = <<"">> THEN <<Dot>>
    ELSE IF Len(labels) = 2 THEN <<labels[1], Dot>>
    ELSE <<labels[1], Dot>> \o to_text(Tail(labels))

\* get_domain_key with the label put in lower case.
get_domain_key_lower(name) ==
    IF Len(name) < 2 THEN to_text(name)
    ELSE IF name[Len(name) - 1] = "COM" THEN <<"com">> ELSE <<name[Len(name) - 1]>>

\* get_domain_key(name): the text of the label before the root label, or the
\* full text of a name with fewer than two labels.  Both are Python strings,
\* so both are token sequences here.
get_domain_key(name) ==
    IF Len(name) < 2 THEN to_text(name) ELSE <<name[Len(name) - 1]>>

(***************************************************************************)
(* Messages.                                                               *)
(***************************************************************************)
\* An RRset: owner name, type and the rdata it groups, in order.
RR(owner, rdtype, items) == [name |-> owner, rdtype |-> rdtype, items |-> items]

\* A dns.message.Message: the question it answers and its two sections.
Message(qname, qtype, answer, additional) ==
    [kind |-> "Message", question |-> [name |-> qname, qtype |-> qtype],
     answer |-> answer, additional |-> additional]

\* Python truthiness of a response: None is false, a Message is true.
Truthy(response) == response # None

HasAnswer(response) == Truthy(response) /\ response.answer # <<>>

(***************************************************************************)
(* The root hints and the servers of the modelled networks.                *)
(***************************************************************************)
ROOT_SERVERS ==
    << "198.41.0.4", "199.9.14.201", "192.33.4.12", "199.7.91.13",
       "192.203.230.10", "192.5.5.241", "192.112.36.4", "198.97.190.53",
       "192.36.148.17", "192.58.128.30", "193.0.14.129", "199.7.83.42",
       "202.12.27.33" >>

\* The prefix of ROOT_SERVERS the model iterates.
Roots == SubSeq(ROOT_SERVERS, 1, NRoots)

RootSet == {ROOT_SERVERS[n] : n \in 1..Len(ROOT_SERVERS)}

GTLD == "192.5.6.30"        \* the com servers
NTLD == "192.55.83.30"      \* the net servers, authoritative for t.net here
NS1 == "10.0.0.1"           \* authoritative for a.com, b.com and c.com
NSDEAD == "10.0.0.9"        \* a lame server: never responds
LOOPX == "10.1.0.1"         \* refers to LOOPY
LOOPY == "10.1.0.2"         \* refers to LOOPX
SUB == "10.2.0.1"           \* refers to the lame server only

aCom == <<"a", "com", "">>
bCom == <<"b", "com", "">>      \* an alias of t.net
cCom == <<"c", "com", "">>      \* an alias of a.com
tNet == <<"t", "net", "">>
gtldName == <<"a", "gtld-servers", "net", "">>
nsName == <<"ns1", "a", "com", "">>
nsDeadName == <<"ns9", "a", "com", "">>

ADDR_A == "192.0.2.1"            \* a.com A
ADDR_T == "93.184.216.34"        \* t.net A
ADDR_A6 == "2001:db8::1"         \* a.com AAAA, held by the roots of "rootans"
GLUE6 == "2001:503:a83e::2:30"   \* AAAA glue of the com servers

\* The names a client asks for, as text.
QueryTexts == { <<"a", Dot, "com">>, <<"b", Dot, "com">>, <<"c", Dot, "com", Dot>> }

\* The networks the resolver is run against.
Worlds ==
    {"deleg", "r1down", "r1lame", "alldown", "cycle", "rootans", "flaky",
     "cnameloop", "wide"}

TLDOf(name) == IF Len(name) < 2 THEN "" ELSE name[Len(name) - 1]

\* The reply of a delegating root server: glue for the TLD's servers.
RootReferral(name, qtype) ==
    IF TLDOf(name) = "com"
    THEN Message(name, qtype, <<>>,
                 << RR(gtldName, AAAA, <<GLUE6>>), RR(gtldName, A, <<GTLD>>) >>)
    ELSE IF TLDOf(name) = "net"
    THEN Message(name, qtype, <<>>, << RR(gtldName, A, <<NTLD>>) >>)
    ELSE Message(name, qtype, <<>>, <<>>)

\* The servers below the roots, the same in every network but "alldown".
BelowRoot(name, qtype, ip) ==
    CASE ip = GTLD /\ TLDOf(name) = "com" ->
            Message(name, qtype, <<>>,
                    << RR(nsDeadName, A, <<NSDEAD>>), RR(nsName, AAAA, <<GLUE6>>),
                       RR(nsName, A, <<NS1>>) >>)
      [] ip = NS1 /\ name = aCom /\ qtype = A ->
            Message(name, qtype, << RR(aCom, A, <<ADDR_A>>) >>, <<>>)
      [] ip = NS1 /\ name = aCom /\ qtype # A ->
            Message(name, qtype, <<>>, <<>>)
      [] ip = NS1 /\ name = bCom ->
            Message(name, qtype, << RR(bCom, CNAME, <<tNet>>) >>, <<>>)
      [] ip = NS1 /\ name = cCom ->
            Message(name, qtype, << RR(cCom, CNAME, <<aCom>>) >>, <<>>)
      [] ip = NTLD /\ name = tNet /\ qtype = A ->
            Message(name, qtype, << RR(tNet, A, <<ADDR_T>>) >>, <<>>)
      [] ip = NTLD /\ name = tNet /\ qtype # A ->
            Message(name, qtype, <<>>, <<>>)
      [] ip = LOOPX -> Message(name, qtype, <<>>, << RR(nsName, A, <<LOOPY>>) >>)
      [] ip = LOOPY -> Message(name, qtype, <<>>, << RR(nsName, A, <<LOOPX>>) >>)
      [] OTHER -> Timeout

\* The reply of the server at ip in network w, or Timeout when it is silent.
\* In "cnameloop" a.com and c.com are aliases of each other; in "wide" a
\* referral lists a root server's own address among its glue, the com
\* servers list three addresses in one RRset, and the second root server
\* answers with an empty Message.
reply(w, name, qtype, ip) ==
    IF w = "alldown" THEN Timeout
    ELSE IF ip \in RootSet
    THEN CASE w = "r1down" /\ ip = ROOT_SERVERS[1] -> Timeout
           [] w = "r1lame" /\ ip = ROOT_SERVERS[1] ->
                 Message(name, qtype, <<>>, << RR(nsDeadName, A, <<NSDEAD>>) >>)
           [] w = "cycle" /\ TLDOf(name) = "com" ->
                 Message(name, qtype, <<>>, << RR(nsName, A, <<LOOPX>>) >>)
           [] w = "rootans" /\ name = aCom /\ qtype = A ->
                 Message(name, qtype, << RR(aCom, A, <<ADDR_A>>) >>, <<>>)
           [] w = "rootans" /\ name = aCom /\ qtype = AAAA ->
                 Message(name, qtype, << RR(aCom, AAAA, <<ADDR_A6>>) >>, <<>>)
           [] w = "cnameloop" /\ TLDOf(name) = "com" ->
                 Message(name, qtype, <<>>, << RR(nsName, A, <<NS1>>) >>)
           [] w = "wide" /\ ip = ROOT_SERVERS[2] ->
                 Message(name, qtype, <<>>, <<>>)
           [] w = "wide" /\ TLDOf(name) = "com" ->
                 Message(name, qtype, <<>>,
                         << RR(gtldName, AAAA, <<GLUE6>>),
                            RR(gtldName, A, <<ROOT_SERVERS[2], GTLD>>) >>)
           [] OTHER -> RootReferral(name, qtype)
    ELSE CASE w = "cnameloop" /\ ip = NS1 /\ name = aCom ->
                 Message(name, qtype, << RR(aCom, CNAME, <<cCom>>) >>, <<>>)
           [] w = "wide" /\ ip = GTLD /\ TLDOf(name) = "com" ->
                 Message(name, qtype, <<>>, << RR(nsName, A, <<SUB, NS1, NSDEAD>>) >>)
           [] w = "wide" /\ ip = SUB ->
                 Message(name, qtype, <<>>, << RR(nsDeadName, A, <<NSDEAD>>) >>)
           [] OTHER -> BelowRoot(name, qtype, ip)

\* dns.query.udp(query, ip_addr, timeout=3) in network w: what the call can
\* end with, the parsed reply or a raised exception.  In network "flaky"
\* every query may time out.
udp(w, name, qtype, ip) ==
    {reply(w, name, qtype, ip)} \cup (IF w = "flaky" THEN {Timeout} ELSE {})

\* make_request without the try/except of lines 76-79.
make_request_noexcept(w, target_name, qtype, ip_addr) ==
    udp(w, target_name, qtype, ip_addr)

\* make_request(target_name, qtype, ip_addr), lines 73-80: the values it can
\* return.  Every exception of the transport becomes None.
make_request(w, target_name, qtype, ip_addr) ==
    {IF IsRaise(x) THEN None ELSE x : x \in udp(w, target_name, qtype, ip_addr)}

(***************************************************************************)
(* State.                                                                  *)
(***************************************************************************)
VARIABLES
    world,          \* the network the process runs against, fixed
    domain_cache,   \* the module-level dict: key -> (root server -> response)
    stack,          \* per thread: its call frames, innermost last
    retval,         \* per thread: the value the last return statement returned
    out,            \* per thread: what its last get_results call ended with
    queried,        \* history: (key, root) -> the first root-loop query and its outcome
    requeried,      \* history: the (key, root) pairs the root loop queried again
    stored,         \* history: (key, root) -> the first value stored in the cache
    replies         \* per thread: the reply DNSResolver.resolve returned

vars == <<world, domain_cache, stack, retval, out, queried, requeried, stored, replies>>

\* The request threads of the server front-end; the command-line use has one.
Threads == {"t1", "t2"}
MainThread == "t1"

\* The loop of get_results, line 31.
RecordTypes == <<A, AAAA>>

NoReturn == [kind |-> "none"]

\* The locals of a call, and the history kept with it: locs, the Messages the
\* find calls of a get_results call returned; tried, the root servers a find
\* call consulted; kids, the addresses a find_recursive call chased; cold,
\* whether a get_results call began on an empty cache.
Frame(fn, pc) ==
    [fn |-> fn, pc |-> pc, text |-> <<>>, name |-> <<>>, qtype |-> A, ip |-> "",
     domain |-> <<>>, i |-> 1, j |-> 1, k |-> 1, resp |-> None, rv |-> None,
     full |-> [A |-> <<>>, AAAA |-> <<>>], locs |-> <<>>, tried |-> <<>>,
     kids |-> <<>>, cold |-> FALSE]

Depth(t) == Len(stack[t])
Top(t) == stack[t][Depth(t)]
Idle(t) == stack[t] = <<>>

\* The stack of t with its top frame replaced by f.
WithTop(t, f) == [stack EXCEPT ![t] = [@ EXCEPT ![Len(@)] = f]]
\* A call: the caller's frame becomes f and the callee's frame g is pushed.
Call(t, f, g) == [stack EXCEPT ![t] = Append([@ EXCEPT ![Len(@)] = f], g)]
\* A return: the top frame is dropped.
Drop(t) == [stack EXCEPT ![t] = SubSeq(@, 1, Len(@) - 1)]

\* An uncaught exception unwinds every frame of the thread.
Raise(t, error) ==
    /\ stack' = [stack EXCEPT ![t] = <<>>]
    /\ out' = [out EXCEPT ![t] = [kind |-> "raised", text |-> stack[t][1].text,
                                  error |-> error]]

Init ==
    /\ world \in Worlds
    /\ domain_cache = <<>>
    /\ stack = [t \in Threads |-> <<>>]
    /\ retval = [t \in Threads |-> None]
    /\ out = [t \in Threads |-> NoReturn]
    /\ queried = <<>>
    /\ requeried = {}
    /\ stored = <<>>
    /\ replies = [t \in Threads |-> NoReturn]

(***************************************************************************)
(* get_results, lines 26-42.                                               *)
(***************************************************************************)
\* Lines 37-40 for one RRset: one {name, address} entry per rdata.
Records(answers) ==
    [n \in 1..Len(answers.items) |->
        [name |-> to_text(answers.name), address |-> answers.items[n]]]

\* Lines 34-40: the entries of the rdata whose type is rdatatype, in answer order.
RECURSIVE Matching(_, _)
Matching(answer, rdatatype) ==
    IF answer = <<>> THEN <<>>
    ELSE (IF Head(answer).rdtype = rdatatype THEN Records(Head(answer)) ELSE <<>>)
         \o Matching(Tail(answer), rdatatype)

\* Lines 26-29: a call of get_results(name) by thread t.
get_results_call(t, text) ==
    /\ Idle(t)
    /\ stack' = [stack EXCEPT ![t] =
                   << [Frame("get_results", "L31") EXCEPT
                          !.text = text, !.name = from_text(text),
                          !.cold = (domain_cache = <<>>)] >>]
    /\ out' = [out EXCEPT ![t] = NoReturn]
    /\ UNCHANGED <<world, replies, domain_cache, retval, queried, requeried, stored>>

\* Lines 31-32: the next record type, and the call of find for it.
get_results_L31(t) ==
    /\ ~Idle(t)
    /\ Top(t).fn = "get_results" /\ Top(t).pc = "L31"
    /\ LET f == Top(t) IN
       IF f.i > Len(RecordTypes)
       THEN stack' = WithTop(t, [f EXCEPT !.pc = "L42"])
       ELSE /\ Depth(t) < MaxStack
            /\ stack' = Call(t, [f EXCEPT !.pc = "L33"],
                             [Frame("find", "L47") EXCEPT
                                 !.name = f.name, !.qtype = RecordTypes[f.i]])
    /\ UNCHANGED <<world, replies, domain_cache, retval, out, queried, requeried, stored>>

\* Lines 33-40: the records of the requested type are appended to the list.
get_results_L33(t) ==
    /\ ~Idle(t)
    /\ Top(t).fn = "get_results" /\ Top(t).pc = "L33"
    /\ LET f == Top(t)
           response == retval[t]
           rdatatype == RecordTypes[f.i]
       IN stack' = WithTop(t,
              [f EXCEPT !.full = IF HasAnswer(response)
                                 THEN [@ EXCEPT ![rdatatype] =
                                          @ \o Matching(response.answer, rdatatype)]
                                 ELSE @,
                        !.locs = Append(@, response),
                        !.i = @ + 1,
                        !.pc = "L31"])
    /\ UNCHANGED <<world, replies, domain_cache, retval, out, queried, requeried, stored>>

\* Line 42: return full_response.
get_results_L42(t) ==
    /\ ~Idle(t)
    /\ Top(t).fn = "get_results" /\ Top(t).pc = "L42"
    /\ LET f == Top(t) IN
       /\ stack' = Drop(t)
       /\ out' = [out EXCEPT ![t] = [kind |-> "result", text |-> f.text,
                                     full |-> f.full, locs |-> f.locs,
                                     cold |-> f.cold]]
    /\ UNCHANGED <<world, replies, domain_cache, retval, queried, requeried, stored>>

(***************************************************************************)
(* find, lines 45-70.                                                      *)
(***************************************************************************)
\* NextGlue without the test of lines 64 and 97: the rdata of every
\* additional RRset, whatever its type.
RECURSIVE NextGlue_anyType(_, _, _)
NextGlue_anyType(additional, j, k) ==
    IF j > Len(additional) THEN <<0, 0>>
    ELSE IF k > Len(additional[j].items) THEN NextGlue_anyType(additional, j + 1, 1)
    ELSE <<j, k>>

\* Lines 63-66 and 96-99: the position (RRset j, rdata k) of the next rdata
\* of an RRset of type A at or after (j, k); <<0, 0>> when none is left.
RECURSIVE NextGlue(_, _, _)
NextGlue(additional, j, k) ==
    IF j > Len(additional) THEN <<0, 0>>
    ELSE IF additional[j].rdtype # A THEN NextGlue(additional, j + 1, 1)
    ELSE IF k > Len(additional[j].items) THEN NextGlue(additional, j + 1, 1)
    ELSE <<j, k>>

\* History kept in a find frame: the root servers it has consulted, in order,
\* each with whether its response or its referral chain gave an answer.
Consulted(tried, i, response) == Append(tried, [i |-> i, got |-> HasAnswer(response)])
Chased(tried, new_response) ==
    [tried EXCEPT ![Len(tried)].got = @ \/ HasAnswer(new_response)]

\* History kept in a find or find_recursive frame: the addresses of the
\* current referral it has chased, in order, each with what the child call
\* returned and whether that was taken as an answer.
Called(kids, ip_addr) == Append(kids, [ip |-> ip_addr, got |-> FALSE, res |-> None])
Returned(kids, new_response, matched) ==
    [kids EXCEPT ![Len(kids)] = [@ EXCEPT !.got = matched, !.res = new_response]]

\* find_L47 with the membership test of line 49 dropped: the map of the key
\* is made anew on every call.
find_L47_reset(t) ==
    /\ ~Idle(t)
    /\ Top(t).fn = "find" /\ Top(t).pc = "L47"
    /\ LET f == Top(t) IN
       stack' = WithTop(t, [f EXCEPT !.domain = get_domain_key(f.name), !.pc = "L50"])
    /\ UNCHANGED <<world, replies, domain_cache, retval, out, queried, requeried, stored>>

\* Lines 47-49: the cache key, and whether the cache has a map for it.
find_L47(t) ==
    /\ ~Idle(t)
    /\ Top(t).fn = "find" /\ Top(t).pc = "L47"
    /\ LET f == Top(t)
           domain == get_domain_key(f.name)
       IN stack' = WithTop(t, [f EXCEPT !.domain = domain,
                                        !.pc = IF domain \notin DOMAIN domain_cache
                                               THEN "L50" ELSE "L52"])
    /\ UNCHANGED <<world, replies, domain_cache, retval, out, queried, requeried, stored>>

\* Line 50: domain_cache[domain] = {}.
find_L50(t) ==
    /\ ~Idle(t)
    /\ Top(t).fn = "find" /\ Top(t).pc = "L50"
    /\ LET f == Top(t) IN
       /\ domain_cache' = (f.domain :> <<>>) @@ domain_cache
       /\ stack' = WithTop(t, [f EXCEPT !.pc = "L52"])
    /\ UNCHANGED <<world, replies, retval, out, queried, requeried, stored>>

\* find_L52 with the cache test of line 53 dropped: every root is queried.
find_L52_nocache(t) ==
    /\ ~Idle(t)
    /\ Top(t).fn = "find" /\ Top(t).pc = "L52"
    /\ LET f == Top(t) IN
       stack' = WithTop(t,
          IF f.i > Len(Roots)
          THEN [f EXCEPT !.pc = "L70", !.rv = None]
          ELSE [f EXCEPT !.pc = "L56"])
    /\ UNCHANGED <<world, replies, domain_cache, retval, out, queried, requeried, stored>>

\* Lines 52-53: the next root server, and whether the cache holds it.
find_L52(t) ==
    /\ ~Idle(t)
    /\ Top(t).fn = "find" /\ Top(t).pc = "L52"
    /\ LET f == Top(t) IN
       stack' = WithTop(t,
          IF f.i > Len(Roots)
          THEN [f EXCEPT !.pc = "L70", !.rv = None]
          ELSE [f EXCEPT !.pc = IF Roots[f.i] \in DOMAIN domain_cache[f.domain]
                                THEN "L54" ELSE "L56"])
    /\ UNCHANGED <<world, replies, domain_cache, retval, out, queried, requeried, stored>>

\* Line 54: response = domain_cache[domain][root_server]; a KeyError when
\* the entry is no longer there.
find_L54(t) ==
    /\ ~Idle(t)
    /\ Top(t).fn = "find" /\ Top(t).pc = "L54"
    /\ LET f == Top(t) IN
       IF Roots[f.i] \in DOMAIN domain_cache[f.domain]
       THEN /\ stack' = WithTop(t, [f EXCEPT !.resp = domain_cache[f.domain][Roots[f.i]],
                                             !.tried = Consulted(@, f.i,
                                                          domain_cache[f.domain][Roots[f.i]]),
                                             !.pc = "L59"])
            /\ out' = out
       ELSE Raise(t, "KeyError")
    /\ UNCHANGED <<world, replies, domain_cache, retval, queried, requeried, stored>>

\* Line 56: response = make_request(target_name, qtype, root_server).
find_L56(t) ==
    /\ ~Idle(t)
    /\ Top(t).fn = "find" /\ Top(t).pc = "L56"
    /\ LET f == Top(t)
           pair == <<f.domain, Roots[f.i]>>
       IN \E r \in make_request(world, f.name, f.qtype, Roots[f.i]) :
            /\ IF IsRaise(r)
               THEN Raise(t, r.error)
               ELSE /\ stack' = WithTop(t, [f EXCEPT !.resp = r,
                                                     !.tried = Consulted(@, f.i, r),
                                                     !.pc = "L57"])
                    /\ out' = out
            /\ queried' = IF pair \in DOMAIN queried
                          THEN queried
                          ELSE (pair :> [name |-> f.name, qtype |-> f.qtype, r |-> r])
                               @@ queried
            /\ requeried' = IF pair \in DOMAIN queried
                            THEN requeried \cup {pair} ELSE requeried
    /\ UNCHANGED <<world, replies, domain_cache, retval, stored>>

\* find_L57 storing only a response that arrived: a failure is not cached.
find_L57_skipNone(t) ==
    /\ ~Idle(t)
    /\ Top(t).fn = "find" /\ Top(t).pc = "L57"
    /\ LET f == Top(t)
           pair == <<f.domain, Roots[f.i]>>
       IN /\ domain_cache' = IF Truthy(f.resp)
                             THEN [domain_cache EXCEPT ![f.domain] =
                                      (Roots[f.i] :> f.resp) @@ @]
                             ELSE domain_cache
          /\ stored' = IF pair \in DOMAIN stored \/ ~Truthy(f.resp)
                       THEN stored ELSE (pair :> f.resp) @@ stored
          /\ stack' = WithTop(t, [f EXCEPT !.pc = "L59"])
    /\ UNCHANGED <<world, replies, retval, out, queried, requeried>>

\* Line 57: domain_cache[domain][root_server] = response.
find_L57(t) ==
    /\ ~Idle(t)
    /\ Top(t).fn = "find" /\ Top(t).pc = "L57"
    /\ LET f == Top(t)
           pair == <<f.domain, Roots[f.i]>>
       IN /\ domain_cache' = [domain_cache EXCEPT ![f.domain] =
                                 (Roots[f.i] :> f.resp) @@ @]
          /\ stored' = IF pair \in DOMAIN stored
                       THEN stored ELSE (pair :> f.resp) @@ stored
          /\ stack' = WithTop(t, [f EXCEPT !.pc = "L59"])
    /\ UNCHANGED <<world, replies, retval, out, queried, requeried>>

\* find_L59 staying at the same root server when it gave nothing to go on.
find_L59_retry(t) ==
    /\ ~Idle(t)
    /\ Top(t).fn = "find" /\ Top(t).pc = "L59"
    /\ LET f == Top(t) IN
       stack' = WithTop(t,
          IF Truthy(f.resp) /\ f.resp.answer # <<>>
          THEN [f EXCEPT !.pc = "L61", !.rv = f.resp]
          ELSE IF Truthy(f.resp) /\ f.resp.additional # <<>>
          THEN [f EXCEPT !.pc = "L63", !.j = 1, !.k = 1, !.kids = <<>>]
          ELSE [f EXCEPT !.pc = "L52", !.tried = SubSeq(@, 1, Len(@) - 1)])
    /\ UNCHANGED <<world, replies, domain_cache, retval, out, queried, requeried, stored>>

\* Lines 59-62: an answer is returned, a referral is chased, anything else
\* moves on to the next root server.
find_L59(t) ==
    /\ ~Idle(t)
    /\ Top(t).fn = "find" /\ Top(t).pc = "L59"
    /\ LET f == Top(t) IN
       stack' = WithTop(t,
          IF Truthy(f.resp) /\ f.resp.answer # <<>>
          THEN [f EXCEPT !.pc = "L61", !.rv = f.resp]
          ELSE IF Truthy(f.resp) /\ f.resp.additional # <<>>
          THEN [f EXCEPT !.pc = "L63", !.j = 1, !.k = 1, !.kids = <<>>]
          ELSE [f EXCEPT !.pc = "L52", !.i = @ + 1])
    /\ UNCHANGED <<world, replies, domain_cache, retval, out, queried, requeried, stored>>

\* Lines 63-67: the next A rdata of the additional section is chased.
find_L63(t) ==
    /\ ~Idle(t)
    /\ Top(t).fn = "find" /\ Top(t).pc = "L63"
    /\ LET f == Top(t)
           pos == NextGlue(f.resp.additional, f.j, f.k)
       IN IF pos = <<0, 0>>
          THEN stack' = WithTop(t, [f EXCEPT !.pc = "L52", !.i = @ + 1])
          ELSE /\ Depth(t) < MaxStack
               /\ stack' = Call(t, [f EXCEPT !.pc = "L68", !.j = pos[1], !.k = pos[2],
                                              !.kids = Called(@, f.resp.additional
                                                                    [pos[1]].items[pos[2]])],
                                [Frame("find_recursive", "L85") EXCEPT
                                    !.name = f.name, !.qtype = f.qtype,
                                    !.ip = f.resp.additional[pos[1]].items[pos[2]]])
    /\ UNCHANGED <<world, replies, domain_cache, retval, out, queried, requeried, stored>>

\* find_L68 without the return of line 69: the loops go on after an answer.
find_L68_goOn(t) ==
    /\ ~Idle(t)
    /\ Top(t).fn = "find" /\ Top(t).pc = "L68"
    /\ LET f == Top(t) IN
       stack' = WithTop(t, [f EXCEPT !.pc = "L63", !.k = @ + 1,
                                     !.tried = Chased(@, retval[t]),
                                     !.kids = Returned(@, retval[t],
                                                       HasAnswer(retval[t]))])
    /\ UNCHANGED <<world, replies, domain_cache, retval, out, queried, requeried, stored>>

\* Lines 68-69: a chase that found an answer ends the search.
find_L68(t) ==
    /\ ~Idle(t)
    /\ Top(t).fn = "find" /\ Top(t).pc = "L68"
    /\ LET f == Top(t) IN
       stack' = WithTop(t,
          IF HasAnswer(retval[t])
          THEN [f EXCEPT !.pc = "L69", !.rv = retval[t], !.tried = Chased(@, retval[t]),
                         !.kids = Returned(@, retval[t], TRUE)]
          ELSE [f EXCEPT !.pc = "L63", !.k = @ + 1,
                         !.kids = Returned(@, retval[t], FALSE)])
    /\ UNCHANGED <<world, replies, domain_cache, retval, out, queried, requeried, stored>>

\* The return statements of lines 61, 69 and 70.
find_return(t) ==
    /\ ~Idle(t)
    /\ Top(t).fn = "find" /\ Top(t).pc \in {"L61", "L69", "L70"}
    /\ stack' = Drop(t)
    /\ retval' = [retval EXCEPT ![t] = Top(t).rv]
    /\ UNCHANGED <<world, replies, domain_cache, out, queried, requeried, stored>>

(***************************************************************************)
(* find_recursive, lines 83-103.                                           *)
(***************************************************************************)
\* Lines 90-91: the position of the first answer RRset of type CNAME when
\* the query type is not CNAME; 0 when there is none.
RECURSIVE FirstCNAME(_, _, _)
FirstCNAME(answer, qtype, n) ==
    IF n > Len(answer) THEN 0
    ELSE IF answer[n].rdtype = CNAME /\ qtype # CNAME THEN n
    ELSE FirstCNAME(answer, qtype, n + 1)

\* Line 92: dns.name.from_text(str(answer[0])) of the RRset at position n.
cname_target(answer, n) == from_text(to_text(answer[n].items[1]))

\* find_recursive_L85 going through the cache as the root loop of find does
\* when the address is a root server's.
find_recursive_L85_cached(t) ==
    /\ ~Idle(t)
    /\ Top(t).fn = "find_recursive" /\ Top(t).pc = "L85"
    /\ LET f == Top(t)
           domain == get_domain_key(f.name)
           hit == /\ domain \in DOMAIN domain_cache
                  /\ f.ip \in DOMAIN domain_cache[domain]
       IN \E r \in make_request(world, f.name, f.qtype, f.ip) :
            LET response == IF hit THEN domain_cache[domain][f.ip] ELSE r IN
            /\ stack' = WithTop(t, [f EXCEPT !.resp = response, !.pc = "L86"])
            /\ domain_cache' = IF f.ip \in RootSet /\ ~hit
                               THEN [domain_cache EXCEPT ![domain] = (f.ip :> r) @@ @]
                               ELSE domain_cache
    /\ UNCHANGED <<world, replies, retval, out, queried, requeried, stored>>

\* Line 85: response = make_request(target_name, qtype, ip_addr).
find_recursive_L85(t) ==
    /\ ~Idle(t)
    /\ Top(t).fn = "find_recursive" /\ Top(t).pc = "L85"
    /\ LET f == Top(t) IN
       \E r \in make_request(world, f.name, f.qtype, f.ip) :
          IF IsRaise(r)
          THEN Raise(t, r.error)
          ELSE /\ stack' = WithTop(t, [f EXCEPT !.resp = r, !.pc = "L86"])
               /\ out' = out
    /\ UNCHANGED <<world, replies, domain_cache, retval, queried, requeried, stored>>

\* find_recursive_L86 returning None for a response without records.
find_recursive_L86_absent(t) ==
    /\ ~Idle(t)
    /\ Top(t).fn = "find_recursive" /\ Top(t).pc = "L86"
    /\ LET f == Top(t) IN
       stack' = WithTop(t,
          IF ~Truthy(f.resp)
          THEN [f EXCEPT !.pc = "L87", !.rv = None]
          ELSE IF f.resp.answer # <<>>
          THEN IF FirstCNAME(f.resp.answer, f.qtype, 1) # 0
               THEN [f EXCEPT !.pc = "L92", !.j = FirstCNAME(f.resp.answer, f.qtype, 1)]
               ELSE [f EXCEPT !.pc = "L94", !.rv = f.resp]
          ELSE IF f.resp.additional # <<>>
          THEN [f EXCEPT !.pc = "L96", !.j = 1, !.k = 1]
          ELSE [f EXCEPT !.pc = "L103", !.rv = None])
    /\ UNCHANGED <<world, replies, domain_cache, retval, out, queried, requeried, stored>>

\* Lines 86-95: no response returns None; an answer is returned unless it
\* holds a CNAME to follow; a referral is chased; anything else is returned.
find_recursive_L86(t) ==
    /\ ~Idle(t)
    /\ Top(t).fn = "find_recursive" /\ Top(t).pc = "L86"
    /\ LET f == Top(t) IN
       stack' = WithTop(t,
          IF ~Truthy(f.resp)
          THEN [f EXCEPT !.pc = "L87", !.rv = None]
          ELSE IF f.resp.answer # <<>>
          THEN IF FirstCNAME(f.resp.answer, f.qtype, 1) # 0
               THEN [f EXCEPT !.pc = "L92", !.j = FirstCNAME(f.resp.answer, f.qtype, 1)]
               ELSE [f EXCEPT !.pc = "L94", !.rv = f.resp]
          ELSE IF f.resp.additional # <<>>
          THEN [f EXCEPT !.pc = "L96", !.j = 1, !.k = 1]
          ELSE [f EXCEPT !.pc = "L103", !.rv = f.resp])
    /\ UNCHANGED <<world, replies, domain_cache, retval, out, queried, requeried, stored>>

\* find_recursive_L92 going on from the current server instead of the roots:
\* find_recursive(cname_target, qtype, ip_addr).
find_recursive_L92_sameServer(t) ==
    /\ ~Idle(t)
    /\ Top(t).fn = "find_recursive" /\ Top(t).pc = "L92"
    /\ Depth(t) < MaxStack
    /\ LET f == Top(t) IN
       stack' = Call(t, [f EXCEPT !.pc = "L93"],
                     [Frame("find_recursive", "L85") EXCEPT
                         !.name = cname_target(f.resp.answer, f.j),
                         !.qtype = f.qtype, !.ip = f.ip])
    /\ UNCHANGED <<world, replies, domain_cache, retval, out, queried, requeried, stored>>

\* Lines 92-93: the call find(cname_target, qtype).
find_recursive_L92(t) ==
    /\ ~Idle(t)
    /\ Top(t).fn = "find_recursive" /\ Top(t).pc = "L92"
    /\ Depth(t) < MaxStack
    /\ LET f == Top(t) IN
       stack' = Call(t, [f EXCEPT !.pc = "L93"],
                     [Frame("find", "L47") EXCEPT
                         !.name = cname_target(f.resp.answer, f.j),
                         !.qtype = f.qtype])
    /\ UNCHANGED <<world, replies, domain_cache, retval, out, queried, requeried, stored>>

\* Line 93: return what find returned.
find_recursive_L93(t) ==
    /\ ~Idle(t)
    /\ Top(t).fn = "find_recursive" /\ Top(t).pc = "L93"
    /\ stack' = Drop(t)
    /\ UNCHANGED <<world, replies, domain_cache, retval, out, queried, requeried, stored>>

\* Lines 96-100: the next A rdata of the additional section is chased; when
\* none is left, line 103 returns the referral itself.
find_recursive_L96(t) ==
    /\ ~Idle(t)
    /\ Top(t).fn = "find_recursive" /\ Top(t).pc = "L96"
    /\ LET f == Top(t)
           pos == NextGlue(f.resp.additional, f.j, f.k)
       IN IF pos = <<0, 0>>
          THEN stack' = WithTop(t, [f EXCEPT !.pc = "L103", !.rv = f.resp])
          ELSE /\ Depth(t) < MaxStack
               /\ stack' = Call(t, [f EXCEPT !.pc = "L101", !.j = pos[1], !.k = pos[2],
                                              !.kids = Called(@, f.resp.additional
                                                                    [pos[1]].items[pos[2]])],
                                [Frame("find_recursive", "L85") EXCEPT
                                    !.name = f.name, !.qtype = f.qtype,
                                    !.ip = f.resp.additional[pos[1]].items[pos[2]]])
    /\ UNCHANGED <<world, replies, domain_cache, retval, out, queried, requeried, stored>>

\* find_recursive_L101 without the return of line 102: the loops go on after
\* an answer.
find_recursive_L101_goOn(t) ==
    /\ ~Idle(t)
    /\ Top(t).fn = "find_recursive" /\ Top(t).pc = "L101"
    /\ LET f == Top(t) IN
       stack' = WithTop(t, [f EXCEPT !.pc = "L96", !.k = @ + 1,
                                     !.kids = Returned(@, retval[t],
                                                       HasAnswer(retval[t]))])
    /\ UNCHANGED <<world, replies, domain_cache, retval, out, queried, requeried, stored>>

\* Lines 101-102: a child chase that found an answer ends this one.
find_recursive_L101(t) ==
    /\ ~Idle(t)
    /\ Top(t).fn = "find_recursive" /\ Top(t).pc = "L101"
    /\ LET f == Top(t) IN
       stack' = WithTop(t,
          IF HasAnswer(retval[t])
          THEN [f EXCEPT !.pc = "L102", !.rv = retval[t],
                         !.kids = Returned(@, retval[t], TRUE)]
          ELSE [f EXCEPT !.pc = "L96", !.k = @ + 1,
                         !.kids = Returned(@, retval[t], FALSE)])
    /\ UNCHANGED <<world, replies, domain_cache, retval, out, queried, requeried, stored>>

\* The return statements of lines 87, 94, 102 and 103.
find_recursive_return(t) ==
    /\ ~Idle(t)
    /\ Top(t).fn = "find_recursive" /\ Top(t).pc \in {"L87", "L94", "L102", "L103"}
    /\ stack' = Drop(t)
    /\ retval' = [retval EXCEPT ![t] = Top(t).rv]
    /\ UNCHANGED <<world, replies, domain_cache, out, queried, requeried, stored>>

(***************************************************************************)
(* The same three functions as values: what a call returns, and the cache  *)
(* it leaves, on a given cache in a network whose servers always give the  *)
(* same reply.  fuel bounds the nesting of the calls as MaxStack does.     *)
(***************************************************************************)
RECURSIVE find_value(_, _, _, _, _, _)
RECURSIVE chase_glue_value(_, _, _, _, _, _, _, _)
RECURSIVE find_recursive_value(_, _, _, _, _, _)

\* find, lines 47-70, from root server i on.
find_value(w, target_name, qtype, cache, i, fuel) ==
    LET domain == get_domain_key(target_name)
        c0 == IF domain \notin DOMAIN cache THEN (domain :> <<>>) @@ cache ELSE cache
    IN IF fuel = 0 \/ i > Len(Roots)
       THEN [res |-> None, cache |-> c0]
       ELSE LET hit == Roots[i] \in DOMAIN c0[domain]
                response == IF hit THEN c0[domain][Roots[i]]
                            ELSE CHOOSE r \in make_request(w, target_name, qtype, Roots[i]) : TRUE
                c1 == IF hit THEN c0
                      ELSE [c0 EXCEPT ![domain] = (Roots[i] :> response) @@ @]
            IN IF Truthy(response) /\ response.answer # <<>>
               THEN [res |-> response, cache |-> c1]
               ELSE IF Truthy(response) /\ response.additional # <<>>
               THEN LET got == chase_glue_value(w, target_name, qtype,
                                                response.additional, 1, 1, c1, fuel)
                    IN IF HasAnswer(got.res) THEN got
                       ELSE find_value(w, target_name, qtype, got.cache, i + 1, fuel)
               ELSE find_value(w, target_name, qtype, c1, i + 1, fuel)

\* The loops of lines 63-69 and 96-102 from position (j, k) on: the first
\* chase that returns an answer, or None.
chase_glue_value(w, target_name, qtype, additional, j, k, cache, fuel) ==
    LET pos == NextGlue(additional, j, k) IN
    IF pos = <<0, 0>>
    THEN [res |-> None, cache |-> cache]
    ELSE LET got == find_recursive_value(w, target_name, qtype,
                                         additional[pos[1]].items[pos[2]], cache, fuel - 1)
         IN IF HasAnswer(got.res) THEN got
            ELSE chase_glue_value(w, target_name, qtype, additional,
                                  pos[1], pos[2] + 1, got.cache, fuel)

\* find_recursive, lines 85-103.
find_recursive_value(w, target_name, qtype, ip_addr, cache, fuel) ==
    IF fuel = 0 THEN [res |-> None, cache |-> cache]
    ELSE LET response == CHOOSE r \in make_request(w, target_name, qtype, ip_addr) : TRUE IN
         IF ~Truthy(response)
         THEN [res |-> None, cache |-> cache]
         ELSE IF response.answer # <<>>
         THEN IF FirstCNAME(response.answer, qtype, 1) # 0
              THEN find_value(w, cname_target(response.answer,
                                              FirstCNAME(response.answer, qtype, 1)),
                              qtype, cache, 1, fuel - 1)
              ELSE [res |-> response, cache |-> cache]
         ELSE IF response.additional # <<>>
         THEN LET got == chase_glue_value(w, target_name, qtype,
                                          response.additional, 1, 1, cache, fuel)
              IN IF HasAnswer(got.res) THEN got
                 ELSE [res |-> response, cache |-> got.cache]
         ELSE [res |-> response, cache |-> cache]

\* Lines 33-40 for one record type.
ListOf(response, rdatatype) ==
    IF HasAnswer(response) THEN Matching(response.answer, rdatatype) ELSE <<>>

\* get_results(name), lines 26-42, on the given cache: the A lookup, then
\* the AAAA lookup on the cache the A lookup left.
get_results_value(w, text, cache) ==
    LET target_name == from_text(text)
        a == find_value(w, target_name, A, cache, 1, MaxStack - 1)
        b == find_value(w, target_name, AAAA, a.cache, 1, MaxStack - 1)
    IN [A |-> ListOf(a.res, A), AAAA |-> ListOf(b.res, AAAA)]

(***************************************************************************)
(* Specifications.                                                         *)
(***************************************************************************)
\* One step of thread t inside a call.
Step(t) ==
    \/ get_results_L31(t)
    \/ get_results_L33(t)
    \/ get_results_L42(t)
    \/ find_L47(t)
    \/ find_L50(t)
    \/ find_L52(t)
    \/ find_L54(t)
    \/ find_L56(t)
    \/ find_L57(t)
    \/ find_L59(t)
    \/ find_L63(t)
    \/ find_L68(t)
    \/ find_return(t)
    \/ find_recursive_L85(t)
    \/ find_recursive_L86(t)
    \/ find_recursive_L92(t)
    \/ find_recursive_L93(t)
    \/ find_recursive_L96(t)
    \/ find_recursive_L101(t)
    \/ find_recursive_return(t)

\* Sequential execution: one thread makes one get_results call after another.
Next ==
    \/ \E text \in QueryTexts : get_results_call(MainThread, text)
    \/ Step(MainThread)

Spec == Init /\ [][Next]_vars

\* The same with the thread kept running: a call that can take a step takes
\* one, every transport query ending in a response or a failure.
SpecLive == Init /\ [][Next]_vars /\ WF_vars(Step(MainThread))

\* The server front-end, lines 121-151: DNSServer runs DNSResolver.resolve on
\* a thread of its own for every client query, so get_results calls of
\* different requests interleave.  A thread serves one request.
\* Lines 124-127: qname = str(request.q.qname), the text of the queried name
\* with its final dot, and the call get_results(qname).
resolve(t, qname) ==
    /\ out[t] = NoReturn
    /\ get_results_call(t, to_text(qname))

\* The time to live of every answer record, lines 130 and 132.
ttl == 60

\* dnslib's RR(rname, rtype, rdata=..., ttl=...).
dnslib_RR(rname, rtype, rdata, time) ==
    [rname |-> rname, rtype |-> rtype, rdata |-> rdata, ttl |-> time]

\* The answer section with every record given the type A.
answers_of_allA(qname, result) ==
    [n \in 1..Len(result.A) |-> dnslib_RR(qname, A, result.A[n].address, ttl)]
    \o [n \in 1..Len(result.AAAA) |-> dnslib_RR(qname, A, result.AAAA[n].address, ttl)]

\* Lines 129-132: the answer section of the reply, the A entries and then
\* the AAAA entries of result, every record under the queried name.
answers_of(qname, result) ==
    [n \in 1..Len(result.A) |-> dnslib_RR(qname, A, result.A[n].address, ttl)]
    \o [n \in 1..Len(result.AAAA) |-> dnslib_RR(qname, AAAA, result.AAAA[n].address, ttl)]

\* Lines 129-137, after get_results has returned: the reply is filled and
\* returned to the server, which sends it to the client.
resolve_L129(t) ==
    /\ Idle(t)
    /\ out[t].kind = "result"
    /\ replies[t] = NoReturn
    /\ replies' = [replies EXCEPT ![t] =
                     [kind |-> "reply", qname |-> out[t].text,
                      rr |-> answers_of(out[t].text, out[t].full)]]
    /\ UNCHANGED <<world, domain_cache, stack, retval, out, queried, requeried, stored>>

\* The client queries of the threaded server: two names of one TLD, each on
\* the thread the server starts for it.
ServerRequests == { <<"t1", bCom>>, <<"t2", aCom>> }

NextServer ==
    \/ \E req \in ServerRequests : resolve(req[1], req[2])
    \/ \E t \in Threads : Step(t)
    \/ \E t \in Threads : resolve_L129(t)

\* The threaded server is run against the network whose first root is
\* silent, the one where every server is, and the one whose roots answer.
InitServer == Init /\ world \in {"r1down", "alldown", "rootans"}

SpecServer == InitServer /\ [][NextServer]_vars

\* The names get_domain_key is applied to: up to MaxLabels labels, in either
\* case, before the root label; and the texts get_results is called with,
\* each name with and without its final dot.
KeyLabels == {"a", "com", "COM"}
KeyNames ==
    {labels \o <<"">> : labels \in UNION {[1..n -> KeyLabels] : n \in 0..MaxLabels}}
KeyTexts ==
    {to_text(name) : name \in KeyNames}
    \cup {SubSeq(to_text(name), 1, Len(to_text(name)) - 1) : name \in KeyNames}

\* The start of a get_results call, up to the cache key of its first find
\* call, for every such text.
NextKey ==
    \/ \E text \in KeyTexts : get_results_call(MainThread, text)
    \/ get_results_L31(MainThread)
    \/ find_L47(MainThread)
    \/ find_L50(MainThread)

InitKey == Init /\ world = "alldown"

SpecKey == InitKey /\ [][NextKey]_vars

(***************************************************************************)
(* Properties.                                                             *)
(***************************************************************************)
AllFrames == UNION {{stack[t][n] : n \in 1..Len(stack[t])} : t \in Threads}
FindFrames == {f \in AllFrames : f.fn = "find"}
ChaseFrames == {f \in AllFrames : f.fn = "find_recursive"}

\* The cache holds an entry for root server s under key d.
CacheHas(d, s) == d \in DOMAIN domain_cache /\ s \in DOMAIN domain_cache[d]

\* C1: in sequential execution the root loop sends at most one query to a
\* root server per cache key, whatever the name and the record type: no
\* (key, root) pair is ever queried a second time, and the loop is about to
\* query a root only when the cache holds no entry for the pair.
C1_OneRootQueryPerKey ==
    /\ requeried = {}
    /\ \A f \in FindFrames : f.pc = "L56" => ~CacheHas(f.domain, Roots[f.i])

\* C1 witness: the root loop takes from the cache an entry that a query for
\* another name and the other record type put there.
C1_Witness ==
    \E f \in FindFrames :
        /\ f.pc = "L54"
        /\ <<f.domain, Roots[f.i]>> \in DOMAIN queried
        /\ queried[<<f.domain, Roots[f.i]>>].name # f.name
        /\ queried[<<f.domain, Roots[f.i]>>].qtype # f.qtype

\* C2: a root-loop query that failed is stored as None under (key, root) by
\* the next statement of its find call and the pair is never queried again;
\* a find call never returns nor chases on a None response, it moves on to
\* the next root server.
C2_FailureCachedAndSkipped ==
    /\ \A pair \in DOMAIN queried :
          queried[pair].r = None =>
             /\ pair \notin requeried
             /\ \/ CacheHas(pair[1], pair[2]) /\ domain_cache[pair[1]][pair[2]] = None
                \/ \E f \in FindFrames :
                      f.pc = "L57" /\ f.resp = None /\ <<f.domain, Roots[f.i]>> = pair
    /\ \A f \in FindFrames :
          f.pc \in {"L61", "L63", "L68", "L69"} => Truthy(f.resp)

\* C2 witness: a later find call, for another name of the key, reads the
\* stored failure instead of querying the root server.
C2_Witness ==
    \E f \in FindFrames :
        /\ f.pc = "L59" /\ f.resp = None
        /\ <<f.domain, Roots[f.i]>> \in DOMAIN queried
        /\ queried[<<f.domain, Roots[f.i]>>].r = None
        /\ queried[<<f.domain, Roots[f.i]>>].name # f.name

\* C3: in sequential execution a populated cache entry keeps the first value
\* stored and is never removed, and every find frame, the outer one of a
\* CNAME restart included, holds for its current root the first value stored.
C3_FirstStoredKept ==
    /\ \A pair \in DOMAIN stored :
          /\ CacheHas(pair[1], pair[2])
          /\ domain_cache[pair[1]][pair[2]] = stored[pair]
    /\ \A f \in FindFrames :
          f.pc \in {"L59", "L61", "L63", "L68", "L69"} =>
             /\ <<f.domain, Roots[f.i]>> \in DOMAIN stored
             /\ f.resp = stored[<<f.domain, Roots[f.i]>>]

\* C3 witness: a find call started by a CNAME restart reads an entry of the
\* key whose root loop an outer find call is still iterating.
C3_Witness ==
    \E t \in Threads : \E m, n \in 1..Len(stack[t]) :
        /\ m < n
        /\ stack[t][m].fn = "find" /\ stack[t][n].fn = "find"
        /\ stack[t][m].domain = stack[t][n].domain
        /\ stack[t][n].pc = "L59" /\ stack[t][n].i = stack[t][m].i
        /\ stack[t][n].resp = stack[t][m].resp

\* C5: find consults the root servers strictly in ROOT_SERVERS order, each
\* once; no root before the current one gave an answer, by itself or through
\* its referral chain; once the current one has, the call only returns that
\* Message; and it returns None only after the last root server.
C5_RootOrderFirstAnswerWins ==
    \A f \in FindFrames :
        LET n == Len(f.tried) IN
        /\ \A m \in 1..n : f.tried[m].i = m
        /\ n = IF f.pc \in {"L47", "L50", "L52", "L54", "L56", "L70"}
               THEN f.i - 1 ELSE f.i
        /\ \A m \in 1..(n - 1) : ~f.tried[m].got
        /\ (n > 0 /\ f.tried[n].got) => f.pc \in {"L57", "L59", "L61", "L69"}
        /\ f.pc \in {"L63", "L68"} => ~HasAnswer(f.resp)
        /\ f.pc = "L61" => f.rv = f.resp /\ HasAnswer(f.rv)
        /\ f.pc = "L69" => HasAnswer(f.rv) /\ f.tried[n].got
        /\ f.pc = "L70" => f.rv = None /\ f.i = Len(Roots) + 1

\* C5 witness: the first root server's referral chain gave no answer and the
\* second one's did; find returns it.
C5_Witness ==
    \E f \in FindFrames :
        /\ f.pc = "L69" /\ f.i = 2
        /\ f.tried = << [i |-> 1, got |-> FALSE], [i |-> 2, got |-> TRUE] >>
        /\ CacheHas(f.domain, Roots[1]) /\ domain_cache[f.domain][Roots[1]] # None

\* The positions of the CNAME RRsets of an answer section.
CNAMEsOf(answer) == {m \in 1..Len(answer) : answer[m].rdtype = CNAME}

\* The ResultSet of an alias of t.net: its A record under the owner name t.net.
AliasResult ==
    [A |-> << [name |-> <<"t", Dot, "net", Dot>>, address |-> ADDR_T] >>, AAAA |-> <<>>]

\* C7: a chase whose server answers with a CNAME RRset, for a query type
\* other than CNAME, never returns that response nor chases on from it: the
\* frame it calls is a find for the target of the first CNAME RRset and the
\* same type, which starts at the first root server.  With delegating roots,
\* get_results of the alias b.com gives the A record of its target t.net
\* under the target's name, and no AAAA entry.
C7_CNAMERestartsAtRoot ==
    /\ \A t \in Threads : \A n \in 1..Len(stack[t]) :
          LET f == stack[t][n] IN
          f.fn = "find_recursive" =>
             /\ f.pc \in {"L94", "L96", "L101", "L102", "L103"} =>
                   (f.qtype = CNAME \/ CNAMEsOf(f.resp.answer) = {})
             /\ (f.pc = "L93" /\ n < Len(stack[t])) =>
                   LET g == stack[t][n + 1]
                       c == CHOOSE m \in CNAMEsOf(f.resp.answer) :
                               \A m2 \in CNAMEsOf(f.resp.answer) : m <= m2
                   IN /\ g.fn = "find"
                      /\ g.name = f.resp.answer[c].items[1]
                      /\ g.qtype = f.qtype
                      /\ g.tried # <<>> => g.tried[1].i = 1
    /\ \A t \in Threads :
          (/\ world \in {"deleg", "r1down", "r1lame"}
           /\ out[t].kind = "result"
           /\ out[t].text = <<"b", Dot, "com">>) => out[t].full = AliasResult

\* C7 witness: get_results of the alias b.com has returned its target's record.
C7_Witness ==
    \E t \in Threads :
        /\ world = "deleg"
        /\ out[t].kind = "result" /\ out[t].text = <<"b", Dot, "com">>
        /\ out[t].full = AliasResult
        /\ out[t].locs[1].question.name = tNet

EmptyResult == [A |-> <<>>, AAAA |-> <<>>]

ChaseDepth(t, n) ==
    n - 1 - CHOOSE m \in 1..n :
               /\ stack[t][m].fn # "find_recursive"
               /\ \A m2 \in (m + 1)..n : stack[t][m2].fn = "find_recursive"

\* C6: a referral cycle does not make find_recursive recurse past the
\* configured maximum depth: no chase frame is deeper than MaxDepth.
C6_ChaseDepthBounded ==
    \A t \in Threads : \A n \in 1..Len(stack[t]) :
        stack[t][n].fn = "find_recursive" => ChaseDepth(t, n) <= MaxDepth

\* The alias restarts in progress on thread t: the find calls nested in its
\* outermost find call.
AliasDepth(t) ==
    Cardinality({n \in 1..Len(stack[t]) : stack[t][n].fn = "find"}) - 1

\* C11: a CNAME cycle does not grow the chain of nested find/find_recursive
\* calls without bound: no more than MaxDepth alias restarts are ever nested.
C11_AliasChaseBounded ==
    \A t \in Threads : AliasDepth(t) <= MaxDepth

\* C4: with concurrent requests the cache test and store of a (key, root)
\* pair are one atomic step: no pair is queried twice by the root loops, no
\* stored entry is overwritten or lost, and no request fails on a missing entry.
C4_AtomicLookupStore ==
    /\ requeried = {}
    /\ \A pair \in DOMAIN stored :
          /\ CacheHas(pair[1], pair[2])
          /\ domain_cache[pair[1]][pair[2]] = stored[pair]
    /\ \A t \in Threads : out[t].kind # "raised"

\* The networks whose servers give the same reply to the same query.
Deterministic == world # "flaky"

\* C9: the two lists are filled independently: each holds the records of its
\* type of the Message its own find call returned, and in a call that began
\* on an empty cache the AAAA list is the one the AAAA lookup gives by
\* itself, on the cache as it was before the A lookup.
C9_TypeSeparation ==
    \A t \in Threads :
        (out[t].kind = "result" /\ Deterministic) =>
           /\ out[t].full.A = ListOf(out[t].locs[1], A)
           /\ out[t].full.AAAA = ListOf(out[t].locs[2], AAAA)
           /\ out[t].cold =>
                 out[t].full.AAAA =
                    ListOf(find_value(world, from_text(out[t].text), AAAA, <<>>,
                                      1, MaxStack - 1).res, AAAA)

\* C10: the cache keyed by TLD is transparent: with deterministic servers a
\* get_results call returns, on any cache earlier calls left, the ResultSet
\* it returns on an empty cache.
C10_CacheTransparent ==
    \A t \in Threads :
        (out[t].kind = "result" /\ Deterministic) =>
           out[t].full = get_results_value(world, out[t].text, <<>>)

\* The value functions agree with the step-by-step model: a call that began
\* on an empty cache returns what get_results_value computes for it.
ValueAgrees ==
    \A t \in Threads :
        (out[t].kind = "result" /\ Deterministic /\ out[t].cold) =>
           out[t].full = get_results_value(world, out[t].text, <<>>)

\* Where the roots only refer, the cache is transparent.
TransparentUnderReferrals ==
    world = "rootans" \/ C10_CacheTransparent

TypesSeparateUnderReferrals ==
    world = "rootans" \/ C9_TypeSeparation

\* The entries of a ResultSet, the A list first.
EntriesOf(full) == full.A \o full.AAAA

\* C12: the reply of the server front-end carries one answer record per
\* entry of the ResultSet get_results returned for the queried name, the A
\* entries first and then the AAAA entries, each with the type of its list,
\* the entry's address and a time to live of 60; an empty ResultSet gives a
\* reply without answer records.
C12_ReplyMirrorsResultSet ==
    \A t \in Threads :
        replies[t].kind = "reply" =>
           LET full == out[t].full
               rr == replies[t].rr
           IN /\ out[t].kind = "result"
              /\ replies[t].qname = out[t].text
              /\ Len(rr) = Len(full.A) + Len(full.AAAA)
              /\ \A n \in 1..Len(rr) :
                    /\ rr[n].ttl = 60
                    /\ rr[n].rdata = EntriesOf(full)[n].address
                    /\ rr[n].rtype = IF n <= Len(full.A) THEN A ELSE AAAA
              /\ full = EmptyResult => rr = <<>>

\* C12 witness: a reply with an A and an AAAA record for a ResultSet with one
\* entry in each list, next to the reply of the other request.
C12_Witness ==
    \E t, u \in Threads :
        /\ replies[t].kind = "reply"
        /\ Len(out[t].full.A) = 1 /\ Len(out[t].full.AAAA) = 1
        /\ Len(replies[t].rr) = 2
        /\ replies[u].kind = "reply" /\ Len(replies[u].rr) < 2

\* C13: the cache is read and written by the root loop of find only: every
\* entry has a root server's address and holds the outcome of the root loop's
\* query for its (key, root) pair, and the response a find_recursive call
\* works on is the outcome of its own query to its server, whatever the
\* cache holds for that address.
C13_CacheOnlyAtRootLoop ==
    /\ \A d \in DOMAIN domain_cache : \A s \in DOMAIN domain_cache[d] :
          /\ s \in RootSet
          /\ <<d, s>> \in DOMAIN queried
          /\ domain_cache[d][s] = queried[<<d, s>>].r
    /\ \A f \in ChaseFrames :
          f.pc # "L85" => f.resp \in make_request(world, f.name, f.qtype, f.ip)

\* C13 witness: a find_recursive call has queried a referred address that is
\* a root server's while the cache holds another response for that root
\* under the key of the name.
C13_Witness ==
    \E f \in ChaseFrames :
        /\ f.pc = "L86" /\ f.ip \in RootSet
        /\ CacheHas(get_domain_key(f.name), f.ip)
        /\ domain_cache[get_domain_key(f.name)][f.ip] # f.resp
        /\ Truthy(f.resp)

\* The addresses of the A-type RRsets of an additional section, in record order.
RECURSIVE AGlue(_)
AGlue(additional) ==
    IF additional = <<>> THEN <<>>
    ELSE (IF Head(additional).rdtype = A THEN Head(additional).items ELSE <<>>)
         \o AGlue(Tail(additional))

\* C14: on a referral find_recursive chases the A-type additional addresses
\* in record order, one at a time: the addresses it has chased are a prefix
\* of them, the call of the last one is the frame above it while it waits,
\* none before the last returned an answer, and once one has, the call only
\* returns that child's Message; it gives up only after the last address.
C14_DepthFirstFirstMatch ==
    \A t \in Threads : \A n \in 1..Len(stack[t]) :
        LET f == stack[t][n]
            c == Len(f.kids)
        IN f.fn = "find_recursive" =>
           /\ f.pc \in {"L85", "L86", "L87", "L92", "L93", "L94"} => f.kids = <<>>
           /\ f.pc \in {"L96", "L101", "L102"} \/ (f.pc = "L103" /\ f.kids # <<>>) =>
                 LET glue == AGlue(f.resp.additional) IN
                 /\ c <= Len(glue)
                 /\ \A m \in 1..c : f.kids[m].ip = glue[m]
                 /\ \A m \in 1..(c - 1) : ~f.kids[m].got
                 /\ f.pc = "L96" => c = 0 \/ ~f.kids[c].got
                 /\ f.pc = "L101" =>
                       /\ c > 0 /\ ~f.kids[c].got
                       /\ n < Len(stack[t]) =>
                             /\ stack[t][n + 1].fn = "find_recursive"
                             /\ stack[t][n + 1].ip = f.kids[c].ip
                             /\ stack[t][n + 1].name = f.name
                             /\ stack[t][n + 1].qtype = f.qtype
                 /\ f.pc = "L102" =>
                       /\ c > 0 /\ f.kids[c].got /\ HasAnswer(f.rv)
                       /\ n = Len(stack[t]) => f.rv = retval[t]
                 /\ f.pc = "L103" => c = Len(glue) /\ ~f.kids[c].got /\ f.rv = f.resp

\* C14 witness: of three sibling addresses the first one's subtree gave no
\* answer, the second one answered, and the call returns without having
\* queried the third.
C14_Witness ==
    \E f \in ChaseFrames :
        /\ f.pc = "L102"
        /\ AGlue(f.resp.additional) = <<SUB, NS1, NSDEAD>>
        /\ Len(f.kids) = 2
        /\ f.kids[1].ip = SUB /\ ~f.kids[1].got
        /\ f.kids[2].ip = NS1 /\ f.kids[2].got

\* A Message with neither answer nor additional records.
NoRecords(response) ==
    Truthy(response) /\ response.answer = <<>> /\ response.additional = <<>>

\* The frames that chase the addresses of a referral.
Chasers == {f \in AllFrames : f.fn \in {"find", "find_recursive"}}

\* C15: find_recursive returns None exactly when its own query got no
\* response, and returns the response itself when that has neither answer
\* nor additional records.  The caller takes neither for a match: it has
\* gone on from every child but the last, whether that child returned None or
\* a Message without answer records, and it returns from inside the loops
\* only on a Message with answer records.
C15_NoResponseVersusEmpty ==
    /\ \A f \in ChaseFrames :
          /\ f.pc = "L87" => f.resp = None /\ f.rv = None
          /\ (f.pc \notin {"L85", "L86"} /\ f.resp = None) => f.pc = "L87"
          /\ (f.pc \notin {"L85", "L86"} /\ NoRecords(f.resp)) =>
                f.pc = "L103" /\ f.rv = f.resp
    /\ \A f \in Chasers :
          /\ \A m \in 1..Len(f.kids) :
                /\ f.kids[m].got = HasAnswer(f.kids[m].res)
                /\ m < Len(f.kids) => ~HasAnswer(f.kids[m].res)
          /\ f.pc \in {"L69", "L102"} => HasAnswer(f.rv)

\* C15 witness: a chase has gone on past a child that returned a Message
\* without records and past a child that returned None.
C15_Witness ==
    \E f \in ChaseFrames : \E m, n \in 1..Len(f.kids) :
        /\ NoRecords(f.kids[m].res) /\ m < n
        /\ f.kids[n].res = None
        /\ f.pc = "L96"
        /\ \E g \in FindFrames : g.pc = "L68" /\ g.kids # <<>> /\ NoRecords(g.kids[1].res)

\* The addresses a Message offers for chasing: the rdata of the A-type RRsets
\* of its additional section.
OfferedBy(response) ==
    IF Truthy(response)
    THEN UNION {{response.additional[j].items[k] : k \in 1..Len(response.additional[j].items)} :
                   j \in {j \in 1..Len(response.additional) :
                              response.additional[j].rdtype = A}}
    ELSE {}

\* C16: a query goes to a root server or to an address of an A-type
\* additional record of a response of the same chain.  The root loop
\* queries members of ROOT_SERVERS only; every find_recursive call, whose
\* first statement queries its address, was made for an address offered by
\* the response its caller holds, which the caller got from its own query or,
\* in find, from the root loop's query or the cache.
C16_QueriedAddressesVetted ==
    /\ \A pair \in DOMAIN queried : pair[2] \in RootSet
    /\ \A f \in FindFrames : f.pc = "L56" => Roots[f.i] \in RootSet
    /\ \A t \in Threads : \A n \in 1..Len(stack[t]) :
          stack[t][n].fn = "find_recursive" =>
             /\ n > 1
             /\ LET f == stack[t][n]
                    g == stack[t][n - 1]
                IN /\ g.fn \in {"find", "find_recursive"}
                   /\ g.pc \in {"L68", "L101"}
                   /\ f.ip \in OfferedBy(g.resp)
                   /\ f.ip # GLUE6
                   /\ g.fn = "find_recursive" =>
                         g.resp \in make_request(world, g.name, g.qtype, g.ip)
                   /\ g.fn = "find" =>
                         /\ CacheHas(g.domain, Roots[g.i])
                         /\ g.resp = domain_cache[g.domain][Roots[g.i]]

\* C16 witness: a chase queries the address of an A-type additional record
\* that follows an AAAA additional record, whose address was passed over.
C16_Witness ==
    \E t \in Threads : \E n \in 2..Len(stack[t]) :
        LET f == stack[t][n]
            g == stack[t][n - 1]
        IN /\ f.fn = "find_recursive" /\ f.pc = "L86" /\ f.ip = NS1
           /\ g.fn = "find_recursive"
           /\ \E j \in 1..(g.j - 1) : g.resp.additional[j].rdtype = AAAA
           /\ \A m \in 1..Len(g.kids) : g.kids[m].ip # GLUE6

\* The last label of a text name: its last token that is not a dot; the
\* text itself when it has none.
LastLabel(text) ==
    LET labels == SelectSeq(text, LAMBDA tok : tok # Dot)
    IN IF labels = <<>> THEN <<Dot>> ELSE <<labels[Len(labels)]>>

RECURSIVE ChainOf(_, _, _)
ChainOf(w, name, fuel) ==
    LET r == reply(w, name, A, NS1) IN
    {name} \cup
    (IF fuel > 0 /\ ~IsRaise(r) /\ FirstCNAME(r.answer, A, 1) # 0
     THEN ChainOf(w, cname_target(r.answer, FirstCNAME(r.answer, A, 1)), fuel - 1)
     ELSE {})

\* C18: every record of a ResultSet comes from a response to a query for the
\* name get_results was called with or for a name on its CNAME chain: a
\* Message that gave an entry to a list has such a name in its question.
C18_RecordsAnswerTheName ==
    \A t \in Threads :
        out[t].kind = "result" =>
           \A n \in 1..Len(out[t].locs) :
               ListOf(out[t].locs[n], RecordTypes[n]) # <<>> =>
                  out[t].locs[n].question.name
                     \in ChainOf(world, from_text(out[t].text), MaxDepth)

\* The networks whose referral graph is acyclic and whose CNAME chains do
\* not come back to a name already on them.
Acyclic == world \notin {"cycle", "cnameloop"}

\* C19: in a network without referral cycle and without CNAME cycle every
\* get_results call eventually returns, given that the thread keeps running.
C19_AcyclicResolveReturns ==
    \A t \in Threads : (~Idle(t) /\ Acyclic) ~> Idle(t)

\* C19 witness: a call that walked a referral with a lame subtree and went
\* on to the second root server has returned its ResultSet.
C19_Witness ==
    \E t \in Threads :
        /\ Idle(t) /\ world = "wide"
        /\ out[t].kind = "result" /\ out[t].text = <<"a", Dot, "com">>
        /\ Len(out[t].full.A) = 1 /\ out[t].full.AAAA = <<>>
        /\ CacheHas(<<"com">>, ROOT_SERVERS[2])

====
